---- MODULE Spec2Model ----
(***************************************************************************)
(* escpy: symmetry validation (elasticity.py) and Born stability checks    *)
(* (crystal.py) of a 6x6 Voigt stiffness tensor.                           *)
(*                                                                         *)
(* Numbers.  Tensor entries and tolerances are reals; the model writes     *)
(* them as integer multiples of one quantum, 1e-8, so that the default     *)
(* tolerance 1e-8 is the integer 1 and the real number 1.0 is Unit.  All   *)
(* arithmetic is exact.  Every stability inequality is homogeneous in the  *)
(* entries, so it reads the same in quanta; a factor 0.5 is cleared by     *)
(* doubling both sides.                                                    *)
(***************************************************************************)
EXTENDS Integers, Sequences, FiniteSets, TLC

VARIABLES
    kind,              \* "StiffnessMatrix" (elasticity.py) or "CrystalSystem" (crystal.py)
    cls,               \* the subclass that was instantiated
    stiffness_matrix,  \* self._stiffness_matrix, indexed [i][j] with i, j in 0..5
    eps,               \* self._eps (StiffnessMatrix only; 0 for a CrystalSystem)
    inp,               \* the constructor's input: a base tensor and one changed entry
    out                \* what the last call returned, printed or raised

vars == <<kind, cls, stiffness_matrix, eps, inp, out>>

----------------------------------------------------------------------------
(* Bounds of the explored inputs *)

MaxDelta == 2
MaxEps == 2

(* Program constants *)

DefaultEps == 1
RtolInv == 100000
Unit == 10 ^ 8

Idx == 0..5

Classes ==
    {"Cubic", "Hexagonal", "Tetragonal", "Rhombohedral",
     "Orthorhombic", "Monoclinic", "Triclinic"}

Abs(x) == IF x < 0 THEN -x ELSE x

Min(a, b) == IF a < b THEN a ELSE b

----------------------------------------------------------------------------
(* Input tensors *)

Mat(rows) == [i \in Idx |-> [j \in Idx |-> rows[i + 1][j + 1]]]

\* The shape of the tensor of test_crystal.py / test_elasticity.py:
\* C00 = C11, C33 = C44, C02 = C12, C55 = (C00 - C01) / 2, rest zero.
HexBase ==
    Mat(<< <<3, 1, 1, 0, 0, 0>>,
           <<1, 3, 1, 0, 0, 0>>,
           <<1, 1, 2, 0, 0, 0>>,
           <<0, 0, 0, 1, 0, 0>>,
           <<0, 0, 0, 0, 1, 0>>,
           <<0, 0, 0, 0, 0, 1>> >>)

\* The same with C33 = C44 = 2e-3, large against the quantum.
HexBig ==
    Mat(<< <<3, 1, 1, 0, 0, 0>>,
           <<1, 3, 1, 0, 0, 0>>,
           <<1, 1, 2, 0, 0, 0>>,
           <<0, 0, 0, 200000, 0, 0>>,
           <<0, 0, 0, 0, 200000, 0>>,
           <<0, 0, 0, 0, 0, 1>> >>)

\* Tetragonal (II): C05 = -C15 nonzero.
TetIIBase ==
    Mat(<< <<3, 1, 1, 0, 0, 1>>,
           <<1, 3, 1, 0, 0, -1>>,
           <<1, 1, 2, 0, 0, 0>>,
           <<0, 0, 0, 1, 0, 0>>,
           <<0, 0, 0, 0, 1, 0>>,
           <<1, -1, 0, 0, 0, 1>> >>)

\* Rhombohedral (II): C04 nonzero, C14 = C35 = -C04.
RhomIIBase ==
    Mat(<< <<3, 1, 1, 0, 1, 0>>,
           <<1, 3, 1, 0, -1, 0>>,
           <<1, 1, 2, 0, 0, 0>>,
           <<0, 0, 0, 1, 0, -1>>,
           <<1, -1, 0, 0, 1, 0>>,
           <<0, 0, 0, -1, 0, 1>> >>)

\* 9 distinct nonzero values in the orthorhombic zero pattern.
OrthoBase ==
    Mat(<< <<11, 1, 2, 0, 0, 0>>,
           <<1, 12, 3, 0, 0, 0>>,
           <<2, 3, 13, 0, 0, 0>>,
           <<0, 0, 0, 14, 0, 0>>,
           <<0, 0, 0, 0, 15, 0>>,
           <<0, 0, 0, 0, 0, 16>> >>)

\* 13 distinct nonzero values in the monoclinic zero pattern.
MonoBase ==
    Mat(<< <<11, 1, 2, 0, 4, 0>>,
           <<1, 12, 3, 0, 5, 0>>,
           <<2, 3, 13, 0, 6, 0>>,
           <<0, 0, 0, 14, 0, 7>>,
           <<4, 5, 6, 0, 15, 0>>,
           <<0, 0, 0, 7, 0, 16>> >>)

\* 21 distinct nonzero values, symmetric, no zero.
TricBase ==
    [i \in Idx |-> [j \in Idx |->
        LET a == Min(i, j)
            b == IF i < j THEN j ELSE i
        IN  a * 6 - (a * (a - 1)) \div 2 + (b - a) + 1]]

BaseNames == {"Hex", "HexBig", "TetII", "RhomII", "Ortho", "Mono", "Tric"}

BaseTensor(name) ==
    CASE name = "Hex" -> HexBase
      [] name = "HexBig" -> HexBig
      [] name = "TetII" -> TetIIBase
      [] name = "RhomII" -> RhomIIBase
      [] name = "Ortho" -> OrthoBase
      [] name = "Mono" -> MonoBase
      [] name = "Tric" -> TricBase

Deltas == ((0 - MaxDelta)..MaxDelta) \ {0}

\* Entries an input may change: the upper triangle, and C10 to break C01 = C10.
Positions == {p \in Idx \X Idx : p[1] <= p[2]} \cup {<<1, 0>>}

NoChange == <<0, 0>>

Inputs ==
    [base : BaseNames, pos : {NoChange}, delta : {0}]
        \cup [base : BaseNames, pos : Positions, delta : Deltas]

\* np.array(values, dtype=np.float64) for a 6x6 input
Build(i) ==
    LET b == BaseTensor(i.base)
    IN  [b EXCEPT ![i.pos[1]][i.pos[2]] = @ + i.delta]

BadShapes == {<<5, 6>>, <<6, 5>>, <<36>>}

----------------------------------------------------------------------------
(* What a property or method gives back *)

Returned(list) == [status |-> "returned", error |-> "", none |-> FALSE, list |-> list]

ReturnedNone == [status |-> "returned", error |-> "", none |-> TRUE, list |-> <<>>]

Raised(e) == [status |-> "raised", error |-> e, none |-> FALSE, list |-> <<>>]

IsList(r) == r.status = "returned" /\ ~r.none

----------------------------------------------------------------------------
(* elasticity.py: the symmetry engine *)

\* isclose with a strict comparison
isclose_strict(a, b, atol) == Abs(a - b) - atol < Abs(b) \div RtolInv

\* isclose with the absolute tolerance taken off the allowance instead of added
isclose_atol_subtracted(a, b, atol) == Abs(a - b) + atol <= Abs(b) \div RtolInv

\* np.isclose(a, b, atol=atol): |a - b| <= atol + rtol * |b| with numpy's default
\* rtol = 1e-5.  For integers x and y >= 0, x <= y / RtolInv iff x <= y \div RtolInv.
isclose(a, b, atol) == Abs(a - b) - atol <= Abs(b) \div RtolInv

\* np.allclose(xs, np.full(n, 0), atol=atol)
allclose_zero(xs, atol) == \A k \in DOMAIN xs : isclose(xs[k], 0, atol)

\* len(np.unique(c))
unique_count(c) == Cardinality({c[i][j] : i \in Idx, j \in Idx})

\* np.array(c[0, 1], c[0, 2], c[1, 2], c[1, 0], c[2, 0], c[2, 1]) passes six
\* positional arguments to np.array, which takes the object and a dtype: the call
\* raises before any condition is evaluated, whatever the tensor.
Cubic_symmetry_conditions(c, e) == Raised("TypeError")

Cubic_symmetry_conditions_text ==
    << "C_{11} = C_{22} = C_{33}",
       "C_{44} = C_{55} = C_{66}",
       "C_{12} = C_{13} = C_{23} = C_{21} = C_{31} = C_{32}" >>

Hexagonal_symmetry_conditions(c, e) ==
    Returned(<< isclose(c[0][0], c[1][1], e),
                isclose(c[3][3], c[4][4], e),
                isclose(c[0][2], c[1][2], e),
                isclose(2 * c[5][5], c[0][0] - c[0][1], 2 * e) >>)

Hexagonal_symmetry_conditions_text ==
    << "C_{11} = C_{22}",
       "C_{44} = C_{55}",
       "C_{13} = C_{23}",
       "C_{66} = 1 / 2 (C_{11} - C_{12})" >>

\* Tetragonal_symmetry_conditions with the variant chosen within the tolerance
Tetragonal_symmetry_conditions_close_selector(c, e) ==
    IF isclose(c[0][5], 0, e)
    THEN Returned(<< isclose(c[0][0], c[1][1], e),
                     isclose(c[3][3], c[4][4], e),
                     isclose(c[0][2], c[1][2], e) >>)
    ELSE Returned(<< isclose(c[0][0], c[1][1], e),
                     isclose(c[3][3], c[4][4], e),
                     isclose(c[0][2], c[1][2], e),
                     isclose(c[0][5], 0 - c[1][5], e) >>)

Tetragonal_symmetry_conditions(c, e) ==
    IF c[0][5] = 0
    THEN Returned(<< isclose(c[0][0], c[1][1], e),
                     isclose(c[3][3], c[4][4], e),
                     isclose(c[0][2], c[1][2], e) >>)
    ELSE Returned(<< isclose(c[0][0], c[1][1], e),
                     isclose(c[3][3], c[4][4], e),
                     isclose(c[0][2], c[1][2], e),
                     isclose(c[0][5], 0 - c[1][5], e) >>)

Tetragonal_symmetry_conditions_text(c) ==
    IF c[0][5] = 0
    THEN << "C_{11} = C_{22}", "C_{44} = C_{55}", "C_{13} = C_{23}" >>
    ELSE << "C_{11} = C_{22}", "C_{44} = C_{55}", "C_{13} = C_{23}",
            "C_{16} = -C_{26}" >>

\* Rhombohedral_symmetry_conditions with the variant chosen within the tolerance
Rhombohedral_symmetry_conditions_close_selector(c, e) ==
    IF isclose(c[0][4], 0, e)
    THEN Returned(<< isclose(c[0][0], c[1][1], e),
                     isclose(c[3][3], c[4][4], e),
                     isclose(c[0][2], c[1][2], e),
                     isclose(2 * c[5][5], c[0][0] - c[0][1], 2 * e),
                     isclose(c[0][3], 0 - c[1][3], e)
                         /\ isclose(c[0][3], 0 - c[4][5], e) >>)
    ELSE Returned(<< isclose(c[0][0], c[1][1], e),
                     isclose(c[3][3], c[4][4], e),
                     isclose(c[0][2], c[1][2], e),
                     isclose(2 * c[5][5], c[0][0] - c[0][1], 2 * e),
                     isclose(c[0][3], 0 - c[1][3], e)
                         /\ isclose(c[0][3], 0 - c[4][5], e),
                     isclose(c[1][4], 0 - c[0][4], e)
                         /\ isclose(c[3][5], 0 - c[0][4], e) >>)

Rhombohedral_symmetry_conditions(c, e) ==
    IF c[0][4] = 0
    THEN Returned(<< isclose(c[0][0], c[1][1], e),
                     isclose(c[3][3], c[4][4], e),
                     isclose(c[0][2], c[1][2], e),
                     isclose(2 * c[5][5], c[0][0] - c[0][1], 2 * e),
                     isclose(c[0][3], 0 - c[1][3], e)
                         /\ isclose(c[0][3], 0 - c[4][5], e) >>)
    ELSE Returned(<< isclose(c[0][0], c[1][1], e),
                     isclose(c[3][3], c[4][4], e),
                     isclose(c[0][2], c[1][2], e),
                     isclose(2 * c[5][5], c[0][0] - c[0][1], 2 * e),
                     isclose(c[0][3], 0 - c[1][3], e)
                         /\ isclose(c[0][3], 0 - c[4][5], e),
                     isclose(c[1][4], 0 - c[0][4], e)
                         /\ isclose(c[3][5], 0 - c[0][4], e) >>)

Rhombohedral_symmetry_conditions_text(c) ==
    IF c[0][4] = 0
    THEN << "C_{11} == C_{22}", "C_{44} = C_{55}", "C_{13} = C_{23}",
            "C_{66} = 1 / 2 (C_{11} - C_{12})",
            "C_{14} = -C_{24} = -C_{56}" >>
    ELSE << "C_{11} == C_{22}", "C_{44} = C_{55}", "C_{13} = C_{23}",
            "C_{66} = 1 / 2 (C_{11} - C_{12})",
            "C_{14} = -C_{24} = -C_{56}",
            "-C_{15} = C_{25} = C_{46}" >>

Orthorhombic_symmetry_conditions(c, e) ==
    Returned(<< allclose_zero(<<c[0][3], c[1][3], c[2][3]>>, e),
                allclose_zero(<<c[0][4], c[1][4], c[2][4], c[3][4]>>, e),
                allclose_zero(<<c[0][5], c[1][5], c[2][5], c[3][5], c[4][5]>>, e),
                unique_count(c) = 9 >>)

\* No comma separates the last two string literals of the source list: Python
\* joins them, and the list has three elements.
Orthorhombic_symmetry_conditions_text ==
    << "C_{14} = C_{24} = C_{34} = 0",
       "C_{15} = C_{25} = C_{35} = C_{45} = 0",
       "C_{16} = C_{26} = C_{36} = C_{46} = C_{56} = 0There are 9 independent values." >>

Monoclinic_symmetry_conditions(c, e) ==
    Returned(<< allclose_zero(<<c[0][3], c[1][3], c[2][3]>>, e),
                Abs(c[3][4]) < e,
                allclose_zero(<<c[0][5], c[1][5], c[2][5]>>, e) /\ Abs(c[4][5]) < e,
                unique_count(c) = 13 >>)

Monoclinic_symmetry_conditions_text ==
    << "C_{14} = C_{24} = C_{34} = 0",
       "C_{45} = 0",
       "C_{16} = C_{26} = C_{36} = C_{56} = 0",
       "There are 13 independent values." >>

Triclinic_symmetry_conditions(c, e) == Returned(<< unique_count(c) = 21 >>)

Triclinic_symmetry_conditions_text == << "There are 21 independent values." >>

\* The property symmetry_conditions of the instantiated subclass
symmetry_conditions(k, c, e) ==
    CASE k = "Cubic" -> Cubic_symmetry_conditions(c, e)
      [] k = "Hexagonal" -> Hexagonal_symmetry_conditions(c, e)
      [] k = "Tetragonal" -> Tetragonal_symmetry_conditions(c, e)
      [] k = "Rhombohedral" -> Rhombohedral_symmetry_conditions(c, e)
      [] k = "Orthorhombic" -> Orthorhombic_symmetry_conditions(c, e)
      [] k = "Monoclinic" -> Monoclinic_symmetry_conditions(c, e)
      [] k = "Triclinic" -> Triclinic_symmetry_conditions(c, e)

symmetry_conditions_text(k, c) ==
    CASE k = "Cubic" -> Returned(Cubic_symmetry_conditions_text)
      [] k = "Hexagonal" -> Returned(Hexagonal_symmetry_conditions_text)
      [] k = "Tetragonal" -> Returned(Tetragonal_symmetry_conditions_text(c))
      [] k = "Rhombohedral" -> Returned(Rhombohedral_symmetry_conditions_text(c))
      [] k = "Orthorhombic" -> Returned(Orthorhombic_symmetry_conditions_text)
      [] k = "Monoclinic" -> Returned(Monoclinic_symmetry_conditions_text)
      [] k = "Triclinic" -> Returned(Triclinic_symmetry_conditions_text)

\* for criterion, criterion_text in zip(conds, text): the pairs up to the shorter
\* list; the texts of the criteria that are False, in order.
RECURSIVE FailedLines(_, _, _)
FailedLines(conds, text, i) ==
    IF i > Min(Len(conds), Len(text))
    THEN <<>>
    ELSE (IF conds[i] THEN <<>> ELSE <<text[i]>>) \o FailedLines(conds, text, i + 1)

\* The loop shared by validate and check_ns_conditions: the arguments of zip are
\* evaluated first (an exception there propagates), zip(None, None) raises
\* TypeError, and flag is False once a zipped criterion is False.
zip_loop(condsR, textR) ==
    IF condsR.status = "raised" THEN condsR
    ELSE IF textR.status = "raised" THEN textR
    ELSE IF condsR.none \/ textR.none THEN Raised("TypeError")
    ELSE LET lines == FailedLines(condsR.list, textR.list, 1)
         IN  [status |-> "returned", error |-> "", none |-> FALSE,
              list |-> lines, flag |-> (lines = <<>>)]

StiffnessMatrix_validate(k, c, e) ==
    zip_loop(symmetry_conditions(k, c, e), symmetry_conditions_text(k, c))

\* The eps setter storing the value before it checks the type
eps_setter_assigns_first(old, value) ==
    IF value.type \notin {"int", "float", "bool"}
    THEN [eps |-> value.val, status |-> "raised", error |-> "TypeError", warned |-> FALSE]
    ELSE [eps |-> value.val, status |-> "returned", error |-> "",
          warned |-> (Abs(value.val) > Unit)]

\* The eps setter: the value a call leaves in self._eps, whether it raised, and
\* whether warnings.warn was called.  isinstance(value, (int, float)) accepts
\* bool, a subclass of int.
eps_setter(old, value) ==
    IF value.type \notin {"int", "float", "bool"}
    THEN [eps |-> old, status |-> "raised", error |-> "TypeError", warned |-> FALSE]
    ELSE [eps |-> value.val, status |-> "returned", error |-> "",
          warned |-> (Abs(value.val) > Unit)]

----------------------------------------------------------------------------
(* crystal.py: the stability engine.  c11, c12, ... are the source's names. *)

Cubic_ns_conditions(c) ==
    LET c11 == c[0][0]
        c12 == c[0][1]
        c44 == c[3][3]
    IN  Returned(<< c11 > Abs(c12),
                    c11 + 2 * c12 > 0,
                    c44 > 0 >>)

Cubic_ns_conditions_text ==
    << "C_{11} > | C_{12} |", "C_{11} + 2 C_{12} > 0", "C_{44} > 0" >>

\* Hexagonal_ns_conditions reading c66 from the tensor, as TetragonalSystem does
Hexagonal_ns_conditions_stored_c66(c) ==
    LET c11 == c[0][0]
        c12 == c[0][1]
        c13 == c[0][2]
        c33 == c[2][2]
        c44 == c[3][3]
        c66 == c[5][5]
    IN  Returned(<< c11 > Abs(c12),
                    2 * c13 * c13 < c33 * (c11 + c12),
                    c44 > 0,
                    c66 > 0 >>)

\* c66 = (c11 - c12) / 2 is computed, not read from the tensor; c66 > 0 is
\* written on its double.
Hexagonal_ns_conditions(c) ==
    LET c11 == c[0][0]
        c12 == c[0][1]
        c13 == c[0][2]
        c33 == c[2][2]
        c44 == c[3][3]
        c66x2 == c11 - c12
    IN  Returned(<< c11 > Abs(c12),
                    2 * c13 * c13 < c33 * (c11 + c12),
                    c44 > 0,
                    c66x2 > 0 >>)

Hexagonal_ns_conditions_text ==
    << "C_{11} > | C_{12} |", "2 C_{13}^2 < C_{33} (C_{11} + C_{12})",
       "C_{44} > 0", "C_{66} > 0" >>

Tetragonal_ns_conditions(c) ==
    LET c11 == c[0][0]
        c12 == c[0][1]
        c13 == c[0][2]
        c16 == c[0][5]
        c33 == c[2][2]
        c44 == c[3][3]
        c66 == c[5][5]
    IN  IF c16 = 0
        THEN Returned(<< c11 > Abs(c12),
                         2 * c13 * c13 < c33 * (c11 + c12),
                         c44 > 0,
                         c66 > 0 >>)
        ELSE Returned(<< c11 > Abs(c12),
                         2 * c13 * c13 < c33 * (c11 + c12),
                         c44 > 0,
                         2 * c16 * c16 < c66 * (c11 - c12) >>)

Tetragonal_ns_conditions_text(c) ==
    IF c[0][5] = 0
    THEN << "C_{11} > | C_{12} |", "2 C_{13}^2 < C_{33} (C_{11} + C_{12})",
            "C_{44} > 0", "C_{66} > 0" >>
    ELSE << "C_{11} > | C_{12} |", "2 C_{13}^2 < C_{33} (C_{11} + C_{12})",
            "C_{44} > 0", "2 C_{16}^2 < C_{66} (C_{11} - C_{12})" >>

\* Each side of a comparison with a factor 0.5 is doubled.
Rhombohedral_ns_conditions(c) ==
    LET c11 == c[0][0]
        c12 == c[0][1]
        c13 == c[0][2]
        c14 == c[0][3]
        c15 == c[0][4]
        c33 == c[2][2]
        c44 == c[3][3]
        c66 == c[5][5]
    IN  IF c15 = 0
        THEN Returned(<< c11 > Abs(c12),
                         c44 > 0,
                         2 * c13 * c13 < c33 * (c11 + c12),
                         2 * c14 * c14 < c44 * (c11 - c12),
                         c44 * (c11 - c12) = 2 * c44 * c66 >>)
        ELSE Returned(<< c11 > Abs(c12),
                         c44 > 0,
                         2 * c13 * c13 < c33 * (c11 + c12),
                         2 * (c14 * c14 + c15 * c15) < c44 * (c11 - c12),
                         c44 * (c11 - c12) = 2 * c44 * c66 >>)

Rhombohedral_ns_conditions_text(c) ==
    IF c[0][4] = 0
    THEN << "C_{11} > | C_{12} |", "C_{44} > 0",
            "C_{13}^2 < 1/2 C_{33} (C_{11} + C_{12})",
            "C_{14}^2 < 1/2 C_{44} (C_{11} - C_{12})",
            "1/2 C_{44} (C_{11} - C_{12}) = C_{44} * C_{66}" >>
    ELSE << "C_{11} > | C_{12} |", "C_{44} > 0",
            "C_{13}^2 < 1/2 C_{33} (C_{11} + C_{12})",
            "C_{14}^2 + C_{15}^2 < 1/2 C_{44} (C_{11} - C_{12})",
            "1/2 C_{44} (C_{11} - C_{12}) = C_{44} * C_{66}" >>

Orthorhombic_ns_conditions(c) ==
    LET c11 == c[0][0]
        c22 == c[1][1]
        c33 == c[2][2]
        c44 == c[3][3]
        c55 == c[4][4]
        c66 == c[5][5]
        c12 == c[0][1]
        c13 == c[0][2]
        c23 == c[1][2]
    IN  Returned(<< c11 > 0,
                    c11 * c22 > c12 * c12,
                    c11 * c22 * c33 + 2 * c12 * c13 * c23
                        > c11 * c23 * c23 + c22 * c13 * c13 + c33 * c12 * c12,
                    c44 > 0,
                    c55 > 0,
                    c66 > 0 >>)

Orthorhombic_ns_conditions_text ==
    << "C_{11} > 0", "C_{11} C_{22} > C_{12}^2",
       "C_{11} C_{22} C_{33} + 2 C_{12} C_{13} C_{23} > C_{11} C_{23}^2 + C_{22} C_{13}^2 + C_{33} C_{12}^2",
       "C_{44} > 0", "C_{55} > 0", "C_{66} > 0" >>

\* The seventh element holds c23 ^ 2, c13 ^ 2 and c12 ^ 2: in Python ^ is bitwise
\* xor and binds looser than * and -, so (c22 * c33 - c23) ^ 2 is evaluated on a
\* float64, which raises TypeError; the operands are evaluated whatever c15 is,
\* so building the list raises for every tensor.
Monoclinic_ns_conditions(c) == Raised("TypeError")

Monoclinic_ns_conditions_text ==
    << "C_{ii} > 0",
       "C_{11} + C_{22} + C_{33} + 2 * (C_{12} + C_{13} + C_{23})",
       "C_{33} * C_{55} - C_{35}^2 > 0",
       "C_{44} * C_{66} - C_{46}^2 > 0",
       "C_{22} + C_{33} - 2 * C_{23}  > 0",
       "C_{22} * (C_{33} * C_{55} - C_{35}^2) + 2 * C_{23} * C_{25} * C_{35} - c23^2 * c55 - c25^2 * c33> 0",
       "The last criterion" >>

\* TriclinicSystem returns None from both properties.
Triclinic_ns_conditions(c) == ReturnedNone

Triclinic_ns_conditions_text == ReturnedNone

ns_conditions(k, c) ==
    CASE k = "Cubic" -> Cubic_ns_conditions(c)
      [] k = "Hexagonal" -> Hexagonal_ns_conditions(c)
      [] k = "Tetragonal" -> Tetragonal_ns_conditions(c)
      [] k = "Rhombohedral" -> Rhombohedral_ns_conditions(c)
      [] k = "Orthorhombic" -> Orthorhombic_ns_conditions(c)
      [] k = "Monoclinic" -> Monoclinic_ns_conditions(c)
      [] k = "Triclinic" -> Triclinic_ns_conditions(c)

ns_conditions_text(k, c) ==
    CASE k = "Cubic" -> Returned(Cubic_ns_conditions_text)
      [] k = "Hexagonal" -> Returned(Hexagonal_ns_conditions_text)
      [] k = "Tetragonal" -> Returned(Tetragonal_ns_conditions_text(c))
      [] k = "Rhombohedral" -> Returned(Rhombohedral_ns_conditions_text(c))
      [] k = "Orthorhombic" -> Returned(Orthorhombic_ns_conditions_text)
      [] k = "Monoclinic" -> Returned(Monoclinic_ns_conditions_text)
      [] k = "Triclinic" -> Triclinic_ns_conditions_text

CrystalSystem_check_ns_conditions(k, c) ==
    zip_loop(ns_conditions(k, c), ns_conditions_text(k, c))

----------------------------------------------------------------------------
(* The state machine: one object, and the calls made on it *)

NoArg == [type |-> "NoneType", val |-> 0]

\* Values a caller assigns to eps: floats around the default (in quanta), a float
\* just above 1, the ints 0 and 1, True, and two values that are no numbers.
EpsArgs ==
    [type : {"float"}, val : (0 - 1)..MaxEps]
        \cup {[type |-> "float", val |-> Unit + 1],
              [type |-> "int", val |-> 0],
              [type |-> "int", val |-> Unit],
              [type |-> "bool", val |-> Unit],
              [type |-> "str", val |-> 0],
              NoArg}

\* out: op is the call; status, error what became of it; conds / text the list a
\* property returned; flag, lines what validate / check_ns_conditions returned and
\* printed; arg, warned the eps setter's argument and whether it warned.
Out(op, r) ==
    [op |-> op, status |-> r.status, error |-> r.error, none |-> r.none,
     conds |-> <<>>, text |-> <<>>, flag |-> FALSE, lines |-> <<>>,
     arg |-> NoArg, warned |-> FALSE]

Fresh == Out("__init__", Returned(<<>>))

Init ==
    /\ kind \in {"StiffnessMatrix", "CrystalSystem"}
    /\ cls \in Classes
    /\ inp \in Inputs
    /\ stiffness_matrix = Build(inp)
    /\ eps = IF kind = "StiffnessMatrix" THEN DefaultEps ELSE 0
    /\ out = Fresh

\* CrystalSystem(obj) with obj a StiffnessMatrix: the new object takes obj's tensor.
NewCrystalSystemFromStiffnessMatrix(k) ==
    /\ kind = "StiffnessMatrix"
    /\ kind' = "CrystalSystem"
    /\ cls' = k
    /\ eps' = 0
    /\ out' = Fresh
    /\ UNCHANGED <<stiffness_matrix, inp>>

\* Either constructor on an input that is not 6x6: ValueError, no object is made.
NewBadShape(shape) ==
    /\ shape # <<6, 6>>
    /\ out' = Out("__init__", Raised("ValueError"))
    /\ UNCHANGED <<kind, cls, stiffness_matrix, eps, inp>>

\* Values a caller writes into C05: zero, and the default tolerance.
C05Writes == {0, DefaultEps}

\* obj.stiffness_matrix[0, 5] = v: the property hands out the array the object
\* holds, and the write lands in it.  Explored on the Tetragonal validator, whose
\* variant C05 selects.
SetC05(v) ==
    /\ kind = "StiffnessMatrix"
    /\ cls = "Tetragonal"
    /\ stiffness_matrix' = [stiffness_matrix EXCEPT ![0][5] = v]
    /\ out' = Out("stiffness_matrix", Returned(<<>>))
    /\ UNCHANGED <<kind, cls, eps, inp>>

GetSymmetryConditions ==
    /\ kind = "StiffnessMatrix"
    /\ LET r == symmetry_conditions(cls, stiffness_matrix, eps)
       IN  out' = [Out("symmetry_conditions", r) EXCEPT !.conds = r.list]
    /\ UNCHANGED <<kind, cls, stiffness_matrix, eps, inp>>

GetSymmetryConditionsText ==
    /\ kind = "StiffnessMatrix"
    /\ LET r == symmetry_conditions_text(cls, stiffness_matrix)
       IN  out' = [Out("symmetry_conditions_text", r) EXCEPT !.text = r.list]
    /\ UNCHANGED <<kind, cls, stiffness_matrix, eps, inp>>

Validate ==
    /\ kind = "StiffnessMatrix"
    /\ LET r == StiffnessMatrix_validate(cls, stiffness_matrix, eps)
       IN  out' = IF r.status = "raised"
                  THEN Out("validate", r)
                  ELSE [Out("validate", r) EXCEPT !.flag = r.flag, !.lines = r.list]
    /\ UNCHANGED <<kind, cls, stiffness_matrix, eps, inp>>

SetEps(value) ==
    /\ kind = "StiffnessMatrix"
    /\ LET r == eps_setter(eps, value)
       IN  /\ eps' = r.eps
           /\ out' = [Out("eps", [status |-> r.status, error |-> r.error, none |-> FALSE])
                          EXCEPT !.arg = value, !.warned = r.warned]
    /\ UNCHANGED <<kind, cls, stiffness_matrix, inp>>

GetNsConditions ==
    /\ kind = "CrystalSystem"
    /\ LET r == ns_conditions(cls, stiffness_matrix)
       IN  out' = [Out("ns_conditions", r) EXCEPT !.conds = r.list]
    /\ UNCHANGED <<kind, cls, stiffness_matrix, eps, inp>>

GetNsConditionsText ==
    /\ kind = "CrystalSystem"
    /\ LET r == ns_conditions_text(cls, stiffness_matrix)
       IN  out' = [Out("ns_conditions_text", r) EXCEPT !.text = r.list]
    /\ UNCHANGED <<kind, cls, stiffness_matrix, eps, inp>>

CheckNsConditions ==
    /\ kind = "CrystalSystem"
    /\ LET r == CrystalSystem_check_ns_conditions(cls, stiffness_matrix)
       IN  out' = IF r.status = "raised"
                  THEN Out("check_ns_conditions", r)
                  ELSE [Out("check_ns_conditions", r)
                            EXCEPT !.flag = r.flag, !.lines = r.list]
    /\ UNCHANGED <<kind, cls, stiffness_matrix, eps, inp>>

Next ==
    \/ \E k \in Classes : NewCrystalSystemFromStiffnessMatrix(k)
    \/ \E shape \in BadShapes : NewBadShape(shape)
    \/ \E v \in C05Writes : SetC05(v)
    \/ GetSymmetryConditions
    \/ GetSymmetryConditionsText
    \/ Validate
    \/ \E value \in EpsArgs : SetEps(value)
    \/ GetNsConditions
    \/ GetNsConditionsText
    \/ CheckNsConditions

Spec == Init /\ [][Next]_vars

----------------------------------------------------------------------------
(* Claims *)

AllTrue(list) == \A i \in DOMAIN list : list[i]

EpsValues == {a.val : a \in {x \in EpsArgs : x.type \in {"int", "float", "bool"}}}

\* C1 (as claimed): whenever a class's condition list exists, validate /
\* check_ns_conditions returns, and returns True iff every boolean of that list
\* is True; a false last condition makes the verdict False.
C1_VerdictIffAllConditions ==
    /\ (out.op = "validate"
            /\ IsList(symmetry_conditions(cls, stiffness_matrix, eps)))
         => /\ out.status = "returned"
            /\ out.flag = AllTrue(symmetry_conditions(cls, stiffness_matrix, eps).list)
    /\ (out.op = "check_ns_conditions" /\ IsList(ns_conditions(cls, stiffness_matrix)))
         => /\ out.status = "returned"
            /\ out.flag = AllTrue(ns_conditions(cls, stiffness_matrix).list)

\* C2 (as claimed): TriclinicSystem.check_ns_conditions returns True without
\* raising and without a diagnostic line, for any tensor.
C2_TriclinicVacuouslyStable ==
    (kind = "CrystalSystem" /\ cls = "Triclinic" /\ out.op = "check_ns_conditions")
        => /\ out.status = "returned"
           /\ out.flag
           /\ out.lines = <<>>

\* The number of conditions the specification lists for each rule set.
ConditionCount(k, c) ==
    IF kind = "StiffnessMatrix"
    THEN CASE k = "Cubic" -> 3
           [] k = "Hexagonal" -> 4
           [] k = "Tetragonal" -> IF c[0][5] = 0 THEN 3 ELSE 4
           [] k = "Rhombohedral" -> IF c[0][4] = 0 THEN 5 ELSE 6
           [] k = "Orthorhombic" -> 4
           [] k = "Monoclinic" -> 4
           [] k = "Triclinic" -> 1
    ELSE CASE k = "Cubic" -> 3
           [] k = "Hexagonal" -> 4
           [] k = "Tetragonal" -> 4
           [] k = "Rhombohedral" -> 5
           [] k = "Orthorhombic" -> 6
           [] k = "Monoclinic" -> 7
           [] k = "Triclinic" -> 0

\* C3 (as claimed): requesting symmetry_conditions or ns_conditions never ends in
\* an error and returns a list with one boolean per condition of the class.
C3_ConditionListNeverRaises ==
    out.op \in {"symmetry_conditions", "ns_conditions"}
        => /\ out.status = "returned"
           /\ ~out.none
           /\ Len(out.conds) = ConditionCount(cls, stiffness_matrix)
           /\ \A i \in DOMAIN out.conds : out.conds[i] \in BOOLEAN

\* C4: HexagonalSystem.check_ns_conditions returns, and returns True exactly when
\* C00 > |C01|, 2*C02^2 < C22*(C00+C01), C33 > 0 and 0.5*(C00-C01) > 0 all hold on
\* the raw entries; the stored C55 is not consulted.
C4_HexagonalStability ==
    (kind = "CrystalSystem" /\ cls = "Hexagonal" /\ out.op = "check_ns_conditions")
        => LET c == stiffness_matrix
           IN  /\ out.status = "returned"
               /\ out.flag = (/\ c[0][0] > Abs(c[0][1])
                              /\ 2 * c[0][2] * c[0][2] < c[2][2] * (c[0][0] + c[0][1])
                              /\ c[3][3] > 0
                              /\ c[0][0] - c[0][1] > 0)

\* A hexagonal tensor judged stable although its stored C55 is not positive.
C4_Witness ==
    /\ kind = "CrystalSystem"
    /\ cls = "Hexagonal"
    /\ out.op = "check_ns_conditions"
    /\ out.flag
    /\ stiffness_matrix[5][5] <= 0

\* The hexagonal pattern, exactly: C00 = C11, C33 = C44, C02 = C12,
\* C55 = 0.5 * (C00 - C01).
HexagonalPattern(c) ==
    /\ c[0][0] = c[1][1]
    /\ c[3][3] = c[4][4]
    /\ c[0][2] = c[1][2]
    /\ 2 * c[5][5] = c[0][0] - c[0][1]

\* C5: on a tensor with the exact hexagonal pattern and eps >= 0,
\* HexagonalSystemStiffnessMatrix.validate returns True and prints nothing,
\* whatever the other entries are.
C5_HexagonalPatternValidates ==
    (kind = "StiffnessMatrix" /\ cls = "Hexagonal" /\ out.op = "validate"
        /\ HexagonalPattern(stiffness_matrix) /\ eps >= 0)
        => /\ out.status = "returned"
           /\ out.flag
           /\ out.lines = <<>>

\* validate has run with eps = 0 on an exact hexagonal pattern whose ungoverned
\* entry C05 is not zero.
C5_Witness ==
    /\ kind = "StiffnessMatrix"
    /\ cls = "Hexagonal"
    /\ out.op = "validate"
    /\ HexagonalPattern(stiffness_matrix)
    /\ eps = 0
    /\ stiffness_matrix[0][5] # 0
    /\ out.flag

\* The entries a class's symmetry pattern forces to zero (upper triangle).
ForcedZero(k) ==
    CASE k = "Orthorhombic" ->
            {<<0, 3>>, <<1, 3>>, <<2, 3>>, <<0, 4>>, <<1, 4>>, <<2, 4>>, <<3, 4>>,
             <<0, 5>>, <<1, 5>>, <<2, 5>>, <<3, 5>>, <<4, 5>>}
      [] k = "Monoclinic" ->
            {<<0, 3>>, <<1, 3>>, <<2, 3>>, <<3, 4>>,
             <<0, 5>>, <<1, 5>>, <<2, 5>>, <<4, 5>>}
      [] k = "Triclinic" -> {}

\* c is symmetric and zero where the class's pattern forces a zero.
InZeroPattern(k, c) ==
    /\ \A i \in Idx, j \in Idx : c[i][j] = c[j][i]
    /\ \A p \in ForcedZero(k) : c[p[1]][p[2]] = 0

\* The scalar values placed in the entries the pattern leaves free.
PlacedValues(k, c) ==
    {c[p[1]][p[2]] : p \in {q \in Idx \X Idx : q[1] <= q[2] /\ q \notin ForcedZero(k)}}

DistinctValues(k) ==
    CASE k = "Orthorhombic" -> 9
      [] k = "Monoclinic" -> 13
      [] k = "Triclinic" -> 21

AllValues(c) == {c[i][j] : i \in Idx, j \in Idx}

\* C6 (as claimed): a tensor with exactly 9 (13, 21) distinct values placed in the
\* Orthorhombic (Monoclinic, Triclinic) zero pattern satisfies the class's
\* 'exactly N distinct values' condition, and the same tensor with one entry
\* changed to one more distinct value does not.
C6_DistinctValueCount ==
    (kind = "StiffnessMatrix"
        /\ cls \in {"Orthorhombic", "Monoclinic", "Triclinic"}
        /\ out.op = "symmetry_conditions"
        /\ InZeroPattern(cls, BaseTensor(inp.base))
        /\ Cardinality(PlacedValues(cls, BaseTensor(inp.base))) = DistinctValues(cls))
        => LET b == BaseTensor(inp.base)
               c == stiffness_matrix
               last == out.conds[Len(out.conds)]
           IN  /\ out.status = "returned"
               /\ inp.delta = 0 => last
               /\ (AllValues(c) # AllValues(b) /\ AllValues(b) \subseteq AllValues(c))
                    => ~last

\* The entries the Hexagonal rule compares directly, and the condition that
\* governs each: 1 is C00 = C11, 2 is C33 = C44, 3 is C02 = C12, 4 is
\* C55 = 0.5 * (C00 - C01).
HexagonalGoverning ==
    (<<0, 0>> :> 1) @@ (<<1, 1>> :> 1) @@ (<<3, 3>> :> 2) @@ (<<4, 4>> :> 2)
        @@ (<<0, 2>> :> 3) @@ (<<1, 2>> :> 3) @@ (<<5, 5>> :> 4)

\* The conditions of the Hexagonal rule in which an entry appears.
HexagonalAppearsIn(p) ==
    {n \in 1..4 :
        \/ n = 1 /\ p \in {<<0, 0>>, <<1, 1>>}
        \/ n = 2 /\ p \in {<<3, 3>>, <<4, 4>>}
        \/ n = 3 /\ p \in {<<0, 2>>, <<1, 2>>}
        \/ n = 4 /\ p \in {<<5, 5>>, <<0, 0>>, <<0, 1>>}}

\* C7 (as claimed, for the Hexagonal rule): from a tensor with the exact hexagonal
\* pattern, changing one directly compared entry by more than eps makes the
\* condition governing it False and leaves the conditions it does not appear in
\* True.
C7_PerturbationFlipsCondition ==
    (kind = "StiffnessMatrix" /\ cls = "Hexagonal"
        /\ out.op = "symmetry_conditions"
        /\ HexagonalPattern(BaseTensor(inp.base))
        /\ inp.pos \in DOMAIN HexagonalGoverning
        /\ eps >= 0
        /\ Abs(inp.delta) > eps)
        => /\ out.status = "returned"
           /\ ~out.conds[HexagonalGoverning[inp.pos]]
           /\ \A n \in (1..4) \ HexagonalAppearsIn(inp.pos) : out.conds[n]

\* C8: tolerance monotonicity.  A symmetry condition that is True at the
\* instance's eps is True at every larger eps on the same tensor (and one that is
\* False is False at every smaller eps); validate, once True, is True at every
\* larger eps.
C8_ToleranceMonotone ==
    /\ (out.op = "symmetry_conditions" /\ out.status = "returned")
         => \A e2 \in EpsValues :
               LET r2 == symmetry_conditions(cls, stiffness_matrix, e2)
               IN  /\ IsList(r2)
                   /\ Len(r2.list) = Len(out.conds)
                   /\ \A i \in DOMAIN out.conds :
                         /\ (e2 > eps /\ out.conds[i]) => r2.list[i]
                         /\ (e2 < eps /\ ~out.conds[i]) => ~r2.list[i]
    /\ (out.op = "validate" /\ out.status = "returned" /\ out.flag)
         => \A e2 \in EpsValues :
               e2 > eps => LET v2 == StiffnessMatrix_validate(cls, stiffness_matrix, e2)
                           IN  v2.status = "returned" /\ v2.flag

\* A condition evaluated False at the instance's eps that a larger eps makes True.
C8_Witness ==
    /\ out.op = "symmetry_conditions"
    /\ out.status = "returned"
    /\ \E e2 \in EpsValues :
          /\ e2 > eps
          /\ \E i \in DOMAIN out.conds :
                /\ ~out.conds[i]
                /\ symmetry_conditions(cls, stiffness_matrix, e2).list[i]

\* C9: in the symmetry engine a Rhombohedral tensor with C04 exactly 0 gets the
\* 5-condition set and one with any nonzero C04 the 6-condition set, with all
\* other entries fixed; the description list has the length and variant of the
\* condition list; the first three conditions are the same in both variants.
C9_RhombohedralVariant ==
    (kind = "StiffnessMatrix" /\ cls = "Rhombohedral")
        => LET c == stiffness_matrix
               zero == [c EXCEPT ![0][4] = 0]
               rz == Rhombohedral_symmetry_conditions(zero, eps)
               tz == Rhombohedral_symmetry_conditions_text(zero)
           IN  /\ out.op = "symmetry_conditions"
                    => /\ out.status = "returned"
                       /\ Len(out.conds) = IF c[0][4] = 0 THEN 5 ELSE 6
                       /\ Len(out.conds)
                            = Len(symmetry_conditions_text(cls, c).list)
               /\ out.op = "symmetry_conditions_text"
                    => /\ out.status = "returned"
                       /\ Len(out.text) = IF c[0][4] = 0 THEN 5 ELSE 6
                       /\ (Len(out.text) = 6)
                            = ("-C_{15} = C_{25} = C_{46}" \in {out.text[i] : i \in DOMAIN out.text})
               /\ IsList(rz) /\ Len(rz.list) = 5 /\ Len(tz) = 5
               /\ \A d \in Deltas \cup {Unit} :
                     LET nz == [c EXCEPT ![0][4] = d]
                         rn == Rhombohedral_symmetry_conditions(nz, eps)
                         tn == Rhombohedral_symmetry_conditions_text(nz)
                     IN  /\ IsList(rn) /\ Len(rn.list) = 6 /\ Len(tn) = 6
                         /\ SubSeq(rn.list, 1, 3) = SubSeq(rz.list, 1, 3)
                         /\ SubSeq(tn, 1, 5) = tz

\* The conditions were requested on a Rhombohedral (II) tensor whose C04 is
\* nonzero but within eps of zero, and six came back.
C9_Witness ==
    /\ kind = "StiffnessMatrix"
    /\ cls = "Rhombohedral"
    /\ out.op = "symmetry_conditions"
    /\ stiffness_matrix[0][4] # 0
    /\ Abs(stiffness_matrix[0][4]) <= eps
    /\ Len(out.conds) = 6

C11_TetragonalSelectorWithinEps ==
    (kind = "StiffnessMatrix" /\ cls = "Tetragonal" /\ out.op = "symmetry_conditions")
        => /\ out.status = "returned"
           /\ Len(out.conds) = IF Abs(stiffness_matrix[0][5]) <= eps THEN 3 ELSE 4

\* C11 (amended): the selection is exact.  The Tetragonal validator evaluates
\* the 3-condition set when the C05 it currently holds is exactly 0 and the
\* 4-condition set, whose fourth condition is C05 = -C15, for every nonzero C05,
\* one within eps of zero included; conditions and descriptions take the same
\* variant.
C11_TetragonalSelectorExact ==
    (kind = "StiffnessMatrix" /\ cls = "Tetragonal")
        => LET c == stiffness_matrix
           IN  /\ out.op = "symmetry_conditions"
                    => /\ out.status = "returned"
                       /\ Len(out.conds) = IF c[0][5] = 0 THEN 3 ELSE 4
                       /\ c[0][5] # 0
                            => out.conds[4] = isclose(c[0][5], 0 - c[1][5], eps)
               /\ out.op = "symmetry_conditions_text"
                    => /\ out.status = "returned"
                       /\ Len(out.text) = IF c[0][5] = 0 THEN 3 ELSE 4
                       /\ c[0][5] # 0 => out.text[4] = "C_{16} = -C_{26}"
               /\ out.op = "validate" => out.status = "returned"

\* The conditions were requested after C05, 0 at construction, was overwritten by
\* a nonzero value within eps of zero, and four came back.
C11_Witness ==
    /\ kind = "StiffnessMatrix"
    /\ cls = "Tetragonal"
    /\ out.op = "symmetry_conditions"
    /\ Build(inp)[0][5] = 0
    /\ stiffness_matrix[0][5] # 0
    /\ Abs(stiffness_matrix[0][5]) <= eps
    /\ Len(out.conds) = 4

====
